---- MODULE Spec2Model ----
(***************************************************************************)
(* Ride-hailing order lifecycle (src/13.2/main.go, second program,         *)
(* lines 200-355): one RideOrder shared by the main flow and the goroutine *)
(* started with `go order.SimulateDelay()`.                                *)
(*                                                                         *)
(* Transition takes no lock, so each access to r.State made by a call is a *)
(* step of its own and the steps of the two goroutines interleave.  A read *)
(* or write of r.State that races with the other goroutine's pending write *)
(* may yield a value that corresponds to no single write (a Go string is   *)
(* two machine words); that value is Torn.                                 *)
(***************************************************************************)
EXTENDS Integers, Sequences, FiniteSets, TLC

----------------------------------------------------------------------------
(* RideState and RideEvent constants *)

StateIdle == "Idle"
StateCarSelected == "CarSelected"
StateOrderConfirmed == "OrderConfirmed"
StateCarArrived == "CarArrived"
StateInTrip == "InTrip"
StateTripCompleted == "TripCompleted"
StateTripCancelled == "TripCancelled"

States ==
    {StateIdle, StateCarSelected, StateOrderConfirmed, StateCarArrived,
     StateInTrip, StateTripCompleted, StateTripCancelled}

EventSelectCar == "selectCar"
EventConfirmOrder == "confirmOrder"
EventCarArrived == "carArrived"
EventStartTrip == "startTrip"
EventEndTrip == "endTrip"
EventCancelOrder == "cancelOrder"
EventCarDelayed == "carDelayed"
EventPaymentSuccess == "paymentSuccess"
EventPaymentFailed == "paymentFailed"
EventChangeCar == "changeCar"
EventEmergencyCancel == "emergencyCancel"

Events ==
    {EventSelectCar, EventConfirmOrder, EventCarArrived, EventStartTrip,
     EventEndTrip, EventCancelOrder, EventCarDelayed, EventPaymentSuccess,
     EventPaymentFailed, EventChangeCar, EventEmergencyCancel}

\* The zero value of RideState, returned by a map lookup of a missing key.
ZeroState == ""

\* A value of r.State that corresponds to no single write (racy read/write).
Torn == "<torn>"

\* Every value the memory cell r.State can be observed to hold.
StateValues == States \cup {ZeroState, Torn}

----------------------------------------------------------------------------
(* The transition table: var transitions = map[RideState]map[RideEvent]RideState *)

VARIABLES
    order,        \* the RideOrder: ID, State, CarID, Driver, Rating
    transitions,  \* the package-level transition map
    pc,           \* position of each goroutine in its code
    event,        \* argument `event` of each goroutine's current/last Transition
    newState,     \* local `newState` of each goroutine's Transition call
    ret,          \* value returned by each goroutine's last call
    lastOp,       \* which method each goroutine called last
    ratingArg,    \* argument `rating` of the main flow's last call, 0 if it has none
    entryState,   \* history: r.State when each goroutine's last call began
    concurrent,   \* history: the other goroutine was inside Transition at some
                  \* moment of each goroutine's last call
    printed,      \* the lines the latest step wrote to standard output
    paid,         \* history: a Transition(paymentSuccess) has succeeded
    hp            \* history: length of the happy-path prefix the main flow applied

vars ==
    <<order, transitions, pc, event, newState, ret, lastOp, ratingArg,
      entryState, concurrent, printed, paid, hp>>

\* The map literal of `var transitions`, each inner map as a set of
\* <<event, target>> entries.
TransitionsLiteral ==
    [s \in States |->
        CASE s = StateIdle ->
                {<<EventSelectCar, StateCarSelected>>,
                 <<EventCancelOrder, StateTripCancelled>>}
          [] s = StateCarSelected ->
                {<<EventConfirmOrder, StateOrderConfirmed>>,
                 <<EventChangeCar, StateCarSelected>>,
                 <<EventCancelOrder, StateTripCancelled>>}
          [] s = StateOrderConfirmed ->
                {<<EventCarArrived, StateCarArrived>>,
                 <<EventCancelOrder, StateTripCancelled>>,
                 <<EventCarDelayed, StateTripCancelled>>}
          [] s = StateCarArrived ->
                {<<EventStartTrip, StateInTrip>>,
                 <<EventCancelOrder, StateTripCancelled>>}
          [] s = StateInTrip ->
                {<<EventEndTrip, StateTripCompleted>>,
                 <<EventEmergencyCancel, StateTripCancelled>>}
          [] s = StateTripCompleted ->
                {<<EventPaymentSuccess, StateIdle>>,
                 <<EventPaymentFailed, StateTripCompleted>>}
          [] s = StateTripCancelled -> {}]

\* transitions[s]: the inner map of s, the empty (nil) map for a missing key.
InnerMap(s) == IF s \in DOMAIN transitions THEN transitions[s] ELSE {}

\* Variant: only the outer map is consulted (_, ok := transitions[s]).
CanTransitionOuterOnly(s, ev) == s \in DOMAIN transitions

\* Variant: true as soon as the state has any outgoing transition.
CanTransitionAnyEvent(s, ev) == InnerMap(s) # {}

\* _, ok := transitions[s][ev]; return ok
CanTransition(s, ev) == \E pr \in InnerMap(s) : pr[1] = ev

\* Variant: the inner map is indexed without regard to the event.
LookupAnyEntry(s, ev) ==
    IF InnerMap(s) # {} THEN (CHOOSE pr \in InnerMap(s) : TRUE)[2] ELSE ZeroState

\* transitions[s][ev]: the target, the zero value when the pair is absent.
Lookup(s, ev) ==
    IF \E pr \in InnerMap(s) : pr[1] = ev
    THEN (CHOOSE pr \in InnerMap(s) : pr[1] = ev)[2]
    ELSE ZeroState

----------------------------------------------------------------------------
(* Goroutines and return values *)

Main == "main"
Watcher == "watcher"
Procs == {Main, Watcher}

Other(p) == IF p = Main THEN Watcher ELSE Main

NoEvent == "-"

NoRet == [kind |-> "none"]
Nil == [kind |-> "nil"]
\* Variant: the two format arguments swapped.
InvalidTransitionSwapped(s, e) ==
    [kind |-> "InvalidTransition", from |-> e, event |-> s]

\* fmt.Errorf("invalid transition: %s -> %s", r.State, event)
InvalidTransition(s, e) == [kind |-> "InvalidTransition", from |-> s, event |-> e]
\* errors.New("rating can only be submitted after the trip cycle is complete")
NotEligible == [kind |-> "NotEligible"]
\* errors.New("rating must be between 1 and 5")
OutOfRange == [kind |-> "OutOfRange"]

\* fmt.Printf("Order %s: %s -> %s\n", r.ID, r.State, newState)
TransitionRecord(id, from, to) == <<"transition", id, from, to>>

\* The lines the switch on the event prints: one line for an event that has
\* a case, none for an event without one.
EffectLines(e) ==
    CASE e = EventSelectCar -> <<<<"effect", "Car selected.">>>>
      [] e = EventConfirmOrder ->
            <<<<"effect", "Order confirmed. Car is on the way.">>>>
      [] e = EventCarArrived -> <<<<"effect", "Car has arrived.">>>>
      [] e = EventStartTrip -> <<<<"effect", "Trip started.">>>>
      [] e = EventEndTrip -> <<<<"effect", "Trip completed. Payment pending.">>>>
      [] e \in {EventCancelOrder, EventCarDelayed, EventEmergencyCancel} ->
            <<<<"effect", "Order cancelled.">>>>
      [] e = EventPaymentSuccess -> <<<<"effect", "Payment successful.">>>>
      [] e = EventPaymentFailed ->
            <<<<"effect", "Payment failed. Please try again.">>>>
      [] OTHER -> <<>>

\* fmt.Println("Car is delayed...")
DelayNotice == <<"notice", "Car is delayed...">>

\* fmt.Printf("Thank you for the rating: %d\n", rating)
RatingThanks(rating) == <<"thanks", rating>>

\* Where a goroutine is once its Transition call has returned.
Returned(p) == IF p = Main THEN "ready" ELSE "w_ret"

\* p is inside a Transition call (between its entry and its return).
InCall(pcs, p) == pcs[p] \in {"t_err", "t_lookup", "t_log", "t_write", "t_effect"}

\* The watcher's exit (the step from "w_ret") touches nothing the main flow
\* can see, so it commutes with every step of the main flow; it is scheduled
\* before the main flow's next step.
Scheduled(p) == p = Main => pc[Watcher] # "w_ret"

----------------------------------------------------------------------------
(* Unsynchronised access to r.State *)

\* The other goroutine is about to execute `r.State = newState` with a value
\* that differs from v: an access made now is not ordered with that write.
Racing(p, v) == pc[Other(p)] = "t_write" /\ newState[Other(p)] # v

\* Values a read of r.State by p can return.
ReadState(p) ==
    {order.State} \cup (IF Racing(p, order.State) THEN {Torn} ELSE {})

\* Values r.State can hold after p executes `r.State = newState`: the two
\* words of racing writes may be stored interleaved, during the first of the
\* two writes (the other is pending) or the second (r.State is Torn).
WriteState(p) ==
    {newState[p]} \cup
    (IF Racing(p, newState[p]) \/ order.State = Torn THEN {Torn} ELSE {})

----------------------------------------------------------------------------
(* Inputs *)

\* ID of the order the driver constructs first.
OrderIDs == {"RIDE-001"}

\* How far outside 1..5 the ratings passed to SubmitRating range.
RatingSpan == 1
RatingInputs == (1 - RatingSpan) .. (5 + RatingSpan)

\* The event sequence the driver applies to its first order.
HappyPath ==
    <<EventSelectCar, EventConfirmOrder, EventCarArrived, EventStartTrip,
      EventEndTrip, EventPaymentSuccess>>

\* History: the happy-path prefix length after the main flow's Transition(e)
\* returns; -1 once the main flow has applied anything else.
HpNext(e) ==
    IF hp = -1 THEN -1
    ELSE LET base == hp % Len(HappyPath)
         IN IF e = HappyPath[base + 1] THEN base + 1 ELSE -1

----------------------------------------------------------------------------
(* Initial state: order := &RideOrder{ID: ..., State: StateIdle} *)

Init ==
    /\ order \in {[ID |-> id, State |-> StateIdle, CarID |-> "", Driver |-> "",
                    Rating |-> 0] : id \in OrderIDs}
    /\ transitions = TransitionsLiteral
    /\ pc = [p \in Procs |-> IF p = Main THEN "ready" ELSE "unspawned"]
    /\ event = [p \in Procs |-> NoEvent]
    /\ newState = [p \in Procs |-> ZeroState]
    /\ ret = [p \in Procs |-> NoRet]
    /\ lastOp = [p \in Procs |-> "none"]
    /\ ratingArg = 0
    /\ entryState = [p \in Procs |-> ZeroState]
    /\ concurrent = [p \in Procs |-> FALSE]
    /\ printed = <<>>
    /\ paid = FALSE
    /\ hp = 0

----------------------------------------------------------------------------
(* func (r *RideOrder) Transition(event RideEvent) error *)

\* Entry and `if !r.CanTransition(event)`.
TransitionEnter(p, e) ==
    /\ \E v \in ReadState(p) :
          pc' = [pc EXCEPT ![p] = IF CanTransition(v, e) THEN "t_lookup"
                                                         ELSE "t_err"]
    /\ event' = [event EXCEPT ![p] = e]
    /\ newState' = [newState EXCEPT ![p] = ZeroState]
    /\ ret' = [ret EXCEPT ![p] = NoRet]
    /\ lastOp' = [lastOp EXCEPT ![p] = "Transition"]
    /\ entryState' = [entryState EXCEPT ![p] = order.State]
    /\ concurrent' = [q \in Procs |->
                        IF q = p THEN InCall(pc, Other(p))
                        ELSE concurrent[q] \/ InCall(pc, q)]
    /\ ratingArg' = IF p = Main THEN 0 ELSE ratingArg
    /\ UNCHANGED <<order, transitions, paid, hp>>

\* return fmt.Errorf("invalid transition: %s -> %s", r.State, event)
TransitionReject(p) ==
    /\ pc[p] = "t_err"
    /\ Scheduled(p)
    /\ \E v \in ReadState(p) :
          ret' = [ret EXCEPT ![p] = InvalidTransition(v, event[p])]
    /\ pc' = [pc EXCEPT ![p] = Returned(p)]
    /\ hp' = IF p = Main THEN HpNext(event[p]) ELSE hp
    /\ printed' = <<>>
    /\ UNCHANGED <<order, transitions, event, newState, lastOp, ratingArg,
                   entryState, concurrent, paid>>

\* newState := transitions[r.State][event]
TransitionLookup(p) ==
    /\ pc[p] = "t_lookup"
    /\ Scheduled(p)
    /\ \E v \in ReadState(p) :
          newState' = [newState EXCEPT ![p] = Lookup(v, event[p])]
    /\ pc' = [pc EXCEPT ![p] = "t_log"]
    /\ printed' = <<>>
    /\ UNCHANGED <<order, transitions, event, ret, lastOp, ratingArg,
                   entryState, concurrent, paid, hp>>

\* Variant: the record is printed after the assignment
\* (r.State = newState; fmt.Printf(..., r.ID, r.State, newState)).
TransitionLogAfterWrite(p) ==
    /\ pc[p] = "t_log"
    /\ Scheduled(p)
    /\ \E w \in WriteState(p) :
          /\ order' = [order EXCEPT !.State = w]
          /\ printed' = <<TransitionRecord(order.ID, w, newState[p])>>
    /\ pc' = [pc EXCEPT ![p] = "t_write"]
    /\ UNCHANGED <<transitions, event, newState, ret, lastOp, ratingArg,
                   entryState, concurrent, paid, hp>>

\* fmt.Printf("Order %s: %s -> %s\n", r.ID, r.State, newState)
TransitionLog(p) ==
    /\ pc[p] = "t_log"
    /\ Scheduled(p)
    /\ \E v \in ReadState(p) :
          printed' = <<TransitionRecord(order.ID, v, newState[p])>>
    /\ pc' = [pc EXCEPT ![p] = "t_write"]
    /\ UNCHANGED <<order, transitions, event, newState, ret, lastOp,
                   ratingArg, entryState, concurrent, paid, hp>>

\* Variant: the assignment starts the order afresh
\* (r.State = newState; r.Rating = 0).
TransitionWriteClearsRating(p) ==
    /\ pc[p] = "t_write"
    /\ Scheduled(p)
    /\ \E w \in WriteState(p) :
          order' = [order EXCEPT !.State = w, !.Rating = 0]
    /\ pc' = [pc EXCEPT ![p] = "t_effect"]
    /\ printed' = <<>>
    /\ UNCHANGED <<transitions, event, newState, ret, lastOp, ratingArg,
                   entryState, concurrent, paid, hp>>

\* Variant: the assignment to r.State is missing.
TransitionWriteOmitted(p) ==
    /\ pc[p] = "t_write"
    /\ Scheduled(p)
    /\ pc' = [pc EXCEPT ![p] = "t_effect"]
    /\ printed' = <<>>
    /\ UNCHANGED <<order, transitions, event, newState, ret, lastOp,
                   ratingArg, entryState, concurrent, paid, hp>>

\* r.State = newState
TransitionWrite(p) ==
    /\ pc[p] = "t_write"
    /\ Scheduled(p)
    /\ \E w \in WriteState(p) : order' = [order EXCEPT !.State = w]
    /\ pc' = [pc EXCEPT ![p] = "t_effect"]
    /\ printed' = <<>>
    /\ UNCHANGED <<transitions, event, newState, ret, lastOp, ratingArg,
                   entryState, concurrent, paid, hp>>

\* switch event { ... fmt.Println(...) }; return nil
TransitionEffect(p) ==
    /\ pc[p] = "t_effect"
    /\ Scheduled(p)
    /\ ret' = [ret EXCEPT ![p] = Nil]
    /\ pc' = [pc EXCEPT ![p] = Returned(p)]
    /\ paid' = (paid \/ event[p] = EventPaymentSuccess)
    /\ hp' = IF p = Main THEN HpNext(event[p]) ELSE hp
    /\ newState' = [newState EXCEPT ![p] = ZeroState]
    /\ printed' = EffectLines(event[p])
    /\ UNCHANGED <<order, transitions, event, lastOp, ratingArg, entryState,
                   concurrent>>

----------------------------------------------------------------------------
(* The main flow *)

\* order.Transition(e)
MainTransition(e) ==
    /\ pc[Main] = "ready"
    /\ Scheduled(Main)
    /\ printed' = <<>>
    /\ TransitionEnter(Main, e)

\* Variant: the range test has no upper limit (rating < 1 only).
SubmitRatingResultNoUpperLimit(v, rating) ==
    IF v # StateIdle THEN NotEligible
    ELSE IF rating < 1 THEN OutOfRange
    ELSE Nil

\* Variant: the range is tested before the state of the order.
SubmitRatingResultRangeFirst(v, rating) ==
    IF rating < 1 \/ rating > 5 THEN OutOfRange
    ELSE IF v # StateIdle THEN NotEligible
    ELSE Nil

\* Variant: the upper limit of the range test is exclusive (rating >= 5).
SubmitRatingResultUpperExclusive(v, rating) ==
    IF v # StateIdle THEN NotEligible
    ELSE IF rating < 1 \/ rating >= 5 THEN OutOfRange
    ELSE Nil

\* The value SubmitRating returns when it reads v from r.State:
\* if r.State != StateIdle {...}; if rating < 1 || rating > 5 {...}; return nil
SubmitRatingResult(v, rating) ==
    IF v # StateIdle THEN NotEligible
    ELSE IF rating < 1 \/ rating > 5 THEN OutOfRange
    ELSE Nil

\* Variant: a stored rating also closes the order
\* (r.State = StateTripCancelled after r.Rating = rating).
SubmitRatingClosesOrder(rating) ==
    /\ pc[Main] = "ready"
    /\ Scheduled(Main)
    /\ \E v \in ReadState(Main) :
          /\ ret' = [ret EXCEPT ![Main] = SubmitRatingResult(v, rating)]
          /\ order' = IF SubmitRatingResult(v, rating) = Nil
                      THEN [order EXCEPT !.Rating = rating,
                                         !.State = StateTripCancelled]
                      ELSE order
          /\ printed' = IF SubmitRatingResult(v, rating) = Nil
                        THEN <<RatingThanks(rating)>> ELSE <<>>
    /\ lastOp' = [lastOp EXCEPT ![Main] = "SubmitRating"]
    /\ ratingArg' = rating
    /\ event' = [event EXCEPT ![Main] = NoEvent]
    /\ entryState' = [entryState EXCEPT ![Main] = order.State]
    /\ concurrent' = [q \in Procs |->
                        IF q = Main THEN InCall(pc, Watcher)
                        ELSE concurrent[q] \/ InCall(pc, q)]
    /\ UNCHANGED <<transitions, pc, newState, paid, hp>>

\* func (r *RideOrder) SubmitRating(rating int) error
SubmitRating(rating) ==
    /\ pc[Main] = "ready"
    /\ Scheduled(Main)
    /\ \E v \in ReadState(Main) :
          /\ ret' = [ret EXCEPT ![Main] = SubmitRatingResult(v, rating)]
          /\ order' = IF SubmitRatingResult(v, rating) = Nil
                      THEN [order EXCEPT !.Rating = rating]
                      ELSE order
          /\ printed' = IF SubmitRatingResult(v, rating) = Nil
                        THEN <<RatingThanks(rating)>> ELSE <<>>
    /\ lastOp' = [lastOp EXCEPT ![Main] = "SubmitRating"]
    /\ ratingArg' = rating
    /\ event' = [event EXCEPT ![Main] = NoEvent]
    /\ entryState' = [entryState EXCEPT ![Main] = order.State]
    /\ concurrent' = [q \in Procs |->
                        IF q = Main THEN InCall(pc, Watcher)
                        ELSE concurrent[q] \/ InCall(pc, q)]
    /\ UNCHANGED <<transitions, pc, newState, paid, hp>>

\* go order.SimulateDelay()
SpawnWatcher ==
    /\ pc[Main] = "ready"
    /\ pc[Watcher] = "unspawned"
    /\ pc' = [pc EXCEPT ![Watcher] = "w_start"]
    /\ printed' = <<>>
    /\ UNCHANGED <<order, transitions, event, newState, ret, lastOp,
                   ratingArg, entryState, concurrent, paid, hp>>

----------------------------------------------------------------------------
(* func (r *RideOrder) SimulateDelay() *)

\* Variant: the wait is entered whatever state the order is in.
WatcherStartUnconditional ==
    /\ pc[Watcher] = "w_start"
    /\ pc' = [pc EXCEPT ![Watcher] = "w_sleep"]
    /\ printed' = <<>>
    /\ UNCHANGED <<order, transitions, event, newState, ret, lastOp,
                   ratingArg, entryState, concurrent, paid, hp>>

\* if r.State == StateOrderConfirmed
WatcherStart ==
    /\ pc[Watcher] = "w_start"
    /\ \E v \in ReadState(Watcher) :
          pc' = [pc EXCEPT ![Watcher] = IF v = StateOrderConfirmed
                                        THEN "w_sleep" ELSE "w_done"]
    /\ printed' = <<>>
    /\ UNCHANGED <<order, transitions, event, newState, ret, lastOp,
                   ratingArg, entryState, concurrent, paid, hp>>

\* Variant: the event is judged against the state seen before the wait.
WatcherFireOnSnapshot ==
    /\ pc[Watcher] = "w_sleep"
    /\ pc' = [pc EXCEPT ![Watcher] =
                 IF CanTransition(StateOrderConfirmed, EventCarDelayed)
                 THEN "t_lookup" ELSE "t_err"]
    /\ event' = [event EXCEPT ![Watcher] = EventCarDelayed]
    /\ newState' = [newState EXCEPT ![Watcher] = ZeroState]
    /\ ret' = [ret EXCEPT ![Watcher] = NoRet]
    /\ lastOp' = [lastOp EXCEPT ![Watcher] = "Transition"]
    /\ entryState' = [entryState EXCEPT ![Watcher] = order.State]
    /\ concurrent' = [q \in Procs |->
                        IF q = Watcher THEN InCall(pc, Main)
                        ELSE concurrent[q] \/ InCall(pc, q)]
    /\ printed' = <<DelayNotice>>
    /\ UNCHANGED <<order, transitions, ratingArg, paid, hp>>

\* Variant: after the wait the watcher reports the car's arrival
\* (r.Transition(EventCarArrived)).
WatcherFireCarArrived ==
    /\ pc[Watcher] = "w_sleep"
    /\ printed' = <<DelayNotice>>
    /\ TransitionEnter(Watcher, EventCarArrived)

\* time.Sleep(2 * time.Second); fmt.Println("Car is delayed...");
\* r.Transition(EventCarDelayed)
WatcherFire ==
    /\ pc[Watcher] = "w_sleep"
    /\ printed' = <<DelayNotice>>
    /\ TransitionEnter(Watcher, EventCarDelayed)

\* The closing braces of SimulateDelay: the value Transition returned is
\* dropped and the goroutine ends.
WatcherReturn ==
    /\ pc[Watcher] = "w_ret"
    /\ pc' = [pc EXCEPT ![Watcher] = "w_done"]
    /\ event' = [event EXCEPT ![Watcher] = NoEvent]
    /\ ret' = [ret EXCEPT ![Watcher] = NoRet]
    /\ lastOp' = [lastOp EXCEPT ![Watcher] = "none"]
    /\ entryState' = [entryState EXCEPT ![Watcher] = ZeroState]
    /\ concurrent' = [concurrent EXCEPT ![Watcher] = FALSE]
    /\ printed' = <<>>
    /\ UNCHANGED <<order, transitions, newState, ratingArg, paid, hp>>

----------------------------------------------------------------------------

Next ==
    \/ \E e \in Events : MainTransition(e)
    \/ \E r \in RatingInputs : SubmitRating(r)
    \/ SpawnWatcher
    \/ WatcherStart
    \/ WatcherFire
    \/ WatcherReturn
    \/ \E p \in Procs : TransitionReject(p)
    \/ \E p \in Procs : TransitionLookup(p)
    \/ \E p \in Procs : TransitionLog(p)
    \/ \E p \in Procs : TransitionWrite(p)
    \/ \E p \in Procs : TransitionEffect(p)

Spec == Init /\ [][Next]_vars

\* A step of the goroutine started by `go order.SimulateDelay()`.
WatcherStep ==
    \/ WatcherStart
    \/ WatcherFire
    \/ WatcherReturn
    \/ TransitionReject(Watcher)
    \/ TransitionLookup(Watcher)
    \/ TransitionLog(Watcher)
    \/ TransitionWrite(Watcher)
    \/ TransitionEffect(Watcher)

\* The Go scheduler runs a runnable goroutine sooner or later, and
\* time.Sleep returns: the watcher is not left waiting for ever.
FairSpec == Spec /\ WF_vars(WatcherStep)

----------------------------------------------------------------------------
(* Vocabulary of the properties *)

\* The transition relation as the specification's table states it.
SpecTable ==
    {<<StateIdle, EventSelectCar, StateCarSelected>>,
     <<StateIdle, EventCancelOrder, StateTripCancelled>>,
     <<StateCarSelected, EventConfirmOrder, StateOrderConfirmed>>,
     <<StateCarSelected, EventChangeCar, StateCarSelected>>,
     <<StateCarSelected, EventCancelOrder, StateTripCancelled>>,
     <<StateOrderConfirmed, EventCarArrived, StateCarArrived>>,
     <<StateOrderConfirmed, EventCancelOrder, StateTripCancelled>>,
     <<StateOrderConfirmed, EventCarDelayed, StateTripCancelled>>,
     <<StateCarArrived, EventStartTrip, StateInTrip>>,
     <<StateCarArrived, EventCancelOrder, StateTripCancelled>>,
     <<StateInTrip, EventEndTrip, StateTripCompleted>>,
     <<StateInTrip, EventEmergencyCancel, StateTripCancelled>>,
     <<StateTripCompleted, EventPaymentSuccess, StateIdle>>,
     <<StateTripCompleted, EventPaymentFailed, StateTripCompleted>>}

\* The entries of the transition map as <<from, event, to>> triples.
TableTriples ==
    UNION {{<<s, pr[1], pr[2]>> : pr \in transitions[s]} : s \in DOMAIN transitions}

\* The transition map has an entry for (s, e).
TableHasEntry(s, e) ==
    s \in DOMAIN transitions /\ \E entry \in transitions[s] : entry[1] = e

\* p's last call was a Transition call and it has returned.
TransitionReturned(p) ==
    lastOp[p] = "Transition" /\ pc[p] = Returned(p) /\ ret[p] # NoRet

\* This step is the return of p's Transition call.
ReturnStep(p) == InCall(pc, p) /\ pc'[p] = Returned(p)

----------------------------------------------------------------------------
(* C1 *)

\* C1: for every state S and event E, CanTransition on an order in state S is
\* true iff the transition map has an entry for (S, E); and a Transition(E)
\* call that ran to completion without another call in progress returned nil
\* iff the map has an entry for (the state at the call, E).
C1_TransitionIffCanTransition ==
    /\ \A s \in States : \A e \in Events :
          CanTransition(s, e) <=> TableHasEntry(s, e)
    /\ \A p \in Procs :
          (TransitionReturned(p) /\ ~concurrent[p]) =>
              (ret[p] = Nil <=> TableHasEntry(entryState[p], event[p]))

\* Witness of C1: the main flow had a call rejected and the watcher's
\* carDelayed was accepted, neither overlapping the other.
C1_Witness ==
    /\ TransitionReturned(Main) /\ ~concurrent[Main]
    /\ ret[Main].kind = "InvalidTransition"
    /\ TransitionReturned(Watcher) /\ ~concurrent[Watcher]
    /\ ret[Watcher] = Nil

----------------------------------------------------------------------------
(* C2 *)

\* C2: Transition calls of the main flow and of the watcher are mutually
\* exclusive (never both in progress), and every value a call writes to
\* r.State is the table target of (r.State at the write, the call's event).
C2_TransitionsMutuallyExclusive ==
    [][/\ ~(InCall(pc', Main) /\ InCall(pc', Watcher))
       /\ \A p \in Procs :
             (pc[p] = "t_write" /\ pc'[p] = "t_effect") =>
                 <<order.State, event[p], order'.State>> \in TableTriples]_vars

----------------------------------------------------------------------------
(* C3 *)

\* C3: in every reachable state r.State is one of the seven states, and is
\* Idle or the table target of some (state, event) pair.
C3_StateAlwaysValid ==
    /\ order.State \in States
    /\ \/ order.State = StateIdle
       \/ \E tr \in TableTriples : tr[3] = order.State

----------------------------------------------------------------------------
(* C4 *)

\* C4: when the watcher, which saw OrderConfirmed at its start, begins its
\* Transition(carDelayed) after a main-flow Transition(carArrived) has
\* returned nil and left the order in CarArrived, the call takes the error
\* path on the state it reads then and leaves the order as it is; its return
\* is an invalid-transition error and changes nothing either.
C4_LateDelayRejected ==
    [][/\ ( /\ pc[Watcher] = "w_sleep" /\ pc'[Watcher] # "w_sleep"
            /\ TransitionReturned(Main) /\ event[Main] = EventCarArrived
            /\ ret[Main] = Nil /\ order.State = StateCarArrived )
          => (pc'[Watcher] = "t_err" /\ order' = order)
       /\ (pc[Watcher] = "t_err" /\ pc'[Watcher] # "t_err")
          => ( /\ ret'[Watcher].kind = "InvalidTransition"
               /\ pc'[Watcher] = "w_ret"
               /\ order' = order )]_vars

\* Witness of C4: the watcher's carDelayed was rejected on CarArrived and the
\* order is still in CarArrived.
C4_Witness ==
    /\ pc[Watcher] = "w_ret" /\ lastOp[Watcher] = "Transition"
    /\ entryState[Watcher] = StateCarArrived
    /\ ret[Watcher] = InvalidTransition(StateCarArrived, EventCarDelayed)
    /\ order.State = StateCarArrived
    /\ ~concurrent[Watcher]

----------------------------------------------------------------------------
(* C5 *)

\* C5: a Transition call that finds its event undefined changes no field of
\* the order at any of its steps, always returns, and returns an
\* invalid-transition error that names the event and (when no write of the
\* other goroutine is pending) the order's state.
C5_FailedTransitionLeavesOrder ==
    [][\A p \in Procs :
         /\ (~InCall(pc, p) /\ pc'[p] = "t_err") => order' = order
         /\ (pc[p] = "t_err" /\ pc'[p] # "t_err") =>
               /\ order' = order
               /\ pc'[p] = Returned(p)
               /\ ret'[p].kind = "InvalidTransition"
               /\ ret'[p].event = event[p]
               /\ ~Racing(p, order.State) => ret'[p].from = order.State]_vars

\* Witness of C5: a rejected call of the main flow on a rated order.
C5_Witness ==
    /\ TransitionReturned(Main) /\ ~concurrent[Main]
    /\ ret[Main] = InvalidTransition(StateIdle, EventStartTrip)
    /\ order.State = StateIdle /\ order.Rating = 4

----------------------------------------------------------------------------
(* C6 *)

\* C6: the transition map holds exactly the fourteen entries of the
\* specification's table, no (state, event) pair has two targets, and when a
\* Transition(E) call that began in state S and overlapped no other call
\* returns nil, the order is in the table's target of (S, E).
C6_TableExactAndApplied ==
    /\ [](/\ TableTriples = SpecTable
          /\ \A a \in TableTriples : \A b \in TableTriples :
                (a[1] = b[1] /\ a[2] = b[2]) => a[3] = b[3])
    /\ [][\A p \in Procs :
            (ReturnStep(p) /\ ret'[p] = Nil /\ ~concurrent'[p]) =>
                <<entryState[p], event[p], order'.State>> \in SpecTable]_vars

\* Witness of C6: an emergency cancellation has moved the order from InTrip
\* to TripCancelled.
C6_Witness ==
    /\ TransitionReturned(Main) /\ ~concurrent[Main] /\ ret[Main] = Nil
    /\ entryState[Main] = StateInTrip /\ event[Main] = EventEmergencyCancel
    /\ order.State = StateTripCancelled

----------------------------------------------------------------------------
(* C7 *)

\* C7: CanTransition is false for every event in TripCancelled; a Transition
\* call that began in TripCancelled and overlapped no other call is on its
\* error path; and the only step that takes the order out of TripCancelled
\* is the write of a call that overlapped another call, so no step does in a
\* sequence of calls each run to completion.
C7_CancelledIsAbsorbing ==
    /\ [](/\ \A e \in Events : ~CanTransition(StateTripCancelled, e)
          /\ \A p \in Procs :
                ( /\ ~concurrent[p] /\ lastOp[p] = "Transition"
                  /\ entryState[p] = StateTripCancelled /\ InCall(pc, p) )
                => pc[p] = "t_err")
    /\ [][(order.State = StateTripCancelled
             /\ order'.State # StateTripCancelled)
            => \E p \in Procs : pc[p] = "t_write" /\ concurrent[p]]_vars

\* Witness of C7: after selectCar and cancelOrder the main flow tried
\* selectCar again on the cancelled order and was refused.
C7_Witness ==
    /\ pc[Watcher] = "unspawned" /\ order.State = StateTripCancelled
    /\ TransitionReturned(Main)
    /\ entryState[Main] = StateTripCancelled /\ event[Main] = EventSelectCar
    /\ ret[Main] = InvalidTransition(StateTripCancelled, EventSelectCar)

----------------------------------------------------------------------------
(* C8 *)

\* C8: the order's rating is set only after a Transition(paymentSuccess) has
\* succeeded on it.
C8_RatedOnlyAfterPayment == order.Rating # 0 => paid

----------------------------------------------------------------------------
(* C9 *)

\* C9: a SubmitRating(r) call made in a state other than Idle returned the
\* not-eligible error; made in Idle, with no Transition call of the watcher in
\* progress, it returned the out-of-range error for r outside 1..5 and
\* otherwise returned nil with r stored as the order's rating.
C9_RatingGating ==
    lastOp[Main] = "SubmitRating" =>
        /\ entryState[Main] # StateIdle => ret[Main] = NotEligible
        /\ (entryState[Main] = StateIdle /\ ~concurrent[Main]) =>
              IF ratingArg \in 1 .. 5
              THEN ret[Main] = Nil /\ order.Rating = ratingArg
              ELSE ret[Main] = OutOfRange

\* Witness of C9: after a rating of 5 was stored in Idle, a rating above 5 was
\* refused as out of range.
C9_Witness ==
    /\ lastOp[Main] = "SubmitRating" /\ ~concurrent[Main]
    /\ entryState[Main] = StateIdle /\ paid
    /\ ratingArg = 6 /\ ret[Main] = OutOfRange
    /\ order.Rating = 5

----------------------------------------------------------------------------
(* C10 *)

\* States the happy path visits, in order.
HappyStates ==
    <<StateCarSelected, StateOrderConfirmed, StateCarArrived, StateInTrip,
      StateTripCompleted, StateIdle>>

\* C10: with no watcher started, after the main flow has applied the first k
\* events of selectCar, confirmOrder, carArrived, startTrip, endTrip,
\* paymentSuccess (cycle after cycle, nothing else), every one of those calls
\* returned nil (the last one is checked as it returns) and the order is in
\* the k-th state of CarSelected, OrderConfirmed, CarArrived, InTrip,
\* TripCompleted, Idle.
C10_HappyPathCycle ==
    (pc[Watcher] = "unspawned" /\ pc[Main] = "ready" /\ hp >= 1) =>
        /\ order.State = HappyStates[hp]
        /\ ret[Main] = Nil \/ lastOp[Main] = "SubmitRating"

\* Witness of C10: a second cycle has reached TripCompleted after a first
\* full cycle.
C10_Witness ==
    /\ pc[Watcher] = "unspawned" /\ pc[Main] = "ready"
    /\ hp = 5 /\ paid
    /\ order.State = StateTripCompleted

----------------------------------------------------------------------------
(* Further vocabulary *)

\* This step is a SubmitRating call: the only step that leaves every
\* goroutine where it is.
SubmitRatingStep == pc' = pc /\ lastOp'[Main] = "SubmitRating"

\* The events Transition would accept on the order as it is.
LegalEvents == {e \in Events : CanTransition(order.State, e)}

----------------------------------------------------------------------------
(* C11 *)

\* C11: in every reachable state the order's rating is unset (0) or an
\* integer in 1..5.
C11_RatingInRange == order.Rating = 0 \/ order.Rating \in 1 .. 5

\* Witness of C11: with a rating of 1 stored, a rating of 0 was refused as out
\* of range and the stored rating stayed.
C11_Witness ==
    /\ lastOp[Main] = "SubmitRating" /\ entryState[Main] = StateIdle
    /\ ratingArg = 0 /\ ret[Main] = OutOfRange
    /\ order.Rating = 1

----------------------------------------------------------------------------
(* C12 *)

\* C12: a SubmitRating call, accepted or refused and whatever the rating,
\* leaves the order's state and the transition map as they were, so the events
\* that are legal after it are those that were legal before it.
C12_SubmitRatingKeepsState ==
    [][SubmitRatingStep =>
          /\ order'.State = order.State
          /\ transitions' = transitions
          /\ LegalEvents' = LegalEvents]_vars

\* Witness of C12: a rating of 3 was accepted and the order is still in Idle,
\* where selectCar is legal.
C12_Witness ==
    /\ lastOp[Main] = "SubmitRating" /\ ret[Main] = Nil
    /\ ratingArg = 3 /\ order.Rating = 3
    /\ printed = <<RatingThanks(3)>>
    /\ order.State = StateIdle /\ EventSelectCar \in LegalEvents

----------------------------------------------------------------------------
(* C13 *)

\* The latest step printed exactly one line, of the given kind.
PrintedOne(kind) == Len(printed) = 1 /\ printed[1][1] = kind

\* p takes the step of Transition that leads from one position to another.
StepOf(p, from, to) == pc[p] = from /\ pc'[p] = to

\* C13: every successful Transition call prints exactly one from -> to record
\* and then exactly one effect line for its event, and nothing else; every
\* failed call prints nothing and returns one invalid-transition error.
C13_OneRecordOneEffect ==
    [][\A p \in Procs :
          /\ StepOf(p, "t_lookup", "t_log") => printed' = <<>>
          /\ StepOf(p, "t_log", "t_write") => PrintedOne("transition")'
          /\ StepOf(p, "t_write", "t_effect") => printed' = <<>>
          /\ StepOf(p, "t_effect", Returned(p)) =>
                PrintedOne("effect")' /\ ret'[p] = Nil
          /\ StepOf(p, "t_err", Returned(p)) =>
                printed' = <<>> /\ ret'[p].kind = "InvalidTransition"]_vars

----------------------------------------------------------------------------
(* C14 *)

\* C14: a Transition(changeCar) call made in CarSelected and a
\* Transition(paymentFailed) call made in TripCompleted, no other call in
\* progress, return nil, leave the state what it was and print the effect
\* line of their event.
C14_SelfLoopsEmitEffect ==
    [][(/\ ReturnStep(Main) /\ ~concurrent[Main]
        /\ \/ event[Main] = EventChangeCar /\ entryState[Main] = StateCarSelected
           \/ event[Main] = EventPaymentFailed
              /\ entryState[Main] = StateTripCompleted)
       => /\ ret'[Main] = Nil
          /\ order'.State = entryState[Main]
          /\ PrintedOne("effect")']_vars

----------------------------------------------------------------------------
(* C17 *)

\* C17: inside a successful Transition call the from -> to record is printed
\* while r.State is still what it was, then r.State is assigned and nothing
\* is printed, then the effect lines of the event are printed; with no other
\* call in progress the record names the state at the call and the target,
\* and r.State is the target when the effect lines are printed.
C17_RecordWriteEffectOrder ==
    [][\A p \in Procs :
          /\ StepOf(p, "t_log", "t_write") =>
                /\ order' = order
                /\ PrintedOne("transition")' /\ printed'[1][4] = newState[p]
                /\ ~concurrent[p] =>
                      /\ order.State = entryState[p]
                      /\ printed'[1][3] = entryState[p]
          /\ StepOf(p, "t_write", "t_effect") =>
                /\ printed' = <<>>
                /\ order'.State \in {newState[p], Torn}
                /\ ~concurrent[p] => order'.State = newState[p]
          /\ StepOf(p, "t_effect", Returned(p)) =>
                /\ order' = order
                /\ printed' = EffectLines(event[p])
                /\ ~concurrent[p] => order.State = newState[p]]_vars

\* Witness of C17: the main flow's endTrip call has printed its record and
\* assigned TripCompleted to r.State; its effect line is still to be printed.
C17_Witness ==
    /\ pc[Main] = "t_effect" /\ ~concurrent[Main]
    /\ event[Main] = EventEndTrip /\ entryState[Main] = StateInTrip
    /\ newState[Main] = StateTripCompleted
    /\ order.State = StateTripCompleted
    /\ printed = <<>>

----------------------------------------------------------------------------
(* C15 *)

\* How far the watcher has come in SimulateDelay.
WatcherRank(at) ==
    CASE at = "unspawned" -> 0
      [] at = "w_start" -> 1
      [] at = "w_sleep" -> 2
      [] at = "w_ret" -> 4
      [] at = "w_done" -> 5
      [] OTHER -> 3

\* This step is the watcher submitting an event: it enters Transition.
WatcherSubmits == ~InCall(pc, Watcher) /\ InCall(pc', Watcher)

\* C15: the watcher submits an event only after its wait, the event is
\* carDelayed, and it never comes back to a point before the call, so it
\* submits at most once; it enters the wait only if the order is in
\* OrderConfirmed when it starts, and otherwise ends at once and changes
\* nothing; the only step of the watcher that changes the order is the
\* assignment inside Transition, and it changes r.State alone.
C15_WatcherSubmitsOnce ==
    [][/\ WatcherSubmits =>
             pc[Watcher] = "w_sleep" /\ event'[Watcher] = EventCarDelayed
       /\ WatcherRank(pc'[Watcher]) >= WatcherRank(pc[Watcher])
       /\ (pc'[Watcher] = "w_sleep" /\ pc[Watcher] # "w_sleep") =>
             pc[Watcher] = "w_start" /\ order.State = StateOrderConfirmed
       /\ (pc[Watcher] = "w_start" /\ pc'[Watcher] # "w_start"
             /\ order.State # StateOrderConfirmed) =>
             pc'[Watcher] = "w_done" /\ order' = order
       /\ (pc'[Watcher] # pc[Watcher] /\ order' # order) =>
             /\ StepOf(Watcher, "t_write", "t_effect")
             /\ order' = [order EXCEPT !.State = order'.State]]_vars

\* Witness of C15: the watcher, started in OrderConfirmed, has submitted its
\* carDelayed, which cancelled the order, and is about to end.
C15_Witness ==
    /\ pc[Watcher] = "w_ret" /\ event[Watcher] = EventCarDelayed
    /\ entryState[Watcher] = StateOrderConfirmed
    /\ ret[Watcher] = Nil /\ order.State = StateTripCancelled
    /\ printed = <<<<"effect", "Order cancelled.">>>>

----------------------------------------------------------------------------
(* C16 *)

\* C16: no step changes the order's ID, CarID or Driver, or the transition
\* map; r.Rating changes only in a SubmitRating call, which leaves r.State;
\* r.State changes only at the assignment inside Transition, which leaves
\* r.Rating; the step that enters Transition and evaluates CanTransition
\* changes nothing of the order.
C16_OneFieldPerOperation ==
    [][/\ order'.ID = order.ID
       /\ order'.CarID = order.CarID
       /\ order'.Driver = order.Driver
       /\ transitions' = transitions
       /\ order'.Rating # order.Rating =>
             SubmitRatingStep /\ order'.State = order.State
       /\ order'.State # order.State =>
             /\ \E p \in Procs : StepOf(p, "t_write", "t_effect")
             /\ order'.Rating = order.Rating
       /\ \A p \in Procs :
             (~InCall(pc, p) /\ InCall(pc', p)) => order' = order]_vars

\* Witness of C16: a rating of 2 stored earlier is still there after the
\* startTrip call that brought the order to InTrip.
C16_Witness ==
    /\ order.Rating = 2 /\ order.State = StateInTrip
    /\ TransitionReturned(Main) /\ ret[Main] = Nil
    /\ event[Main] = EventStartTrip

----------------------------------------------------------------------------
(* C19 *)

\* C19: an order in TripCompleted stays there or moves to Idle, never
\* anywhere else; a Transition call made in TripCompleted, no other call in
\* progress, returns nil for paymentSuccess (the order is then in Idle) and
\* for paymentFailed (the order is still in TripCompleted) and an error for
\* every other event.
C19_TripCompletedLeavesByPayment ==
    [][/\ order.State = StateTripCompleted =>
             order'.State \in {StateTripCompleted, StateIdle}
       /\ (/\ ReturnStep(Main) /\ ~concurrent[Main]
           /\ entryState[Main] = StateTripCompleted) =>
             /\ ret'[Main] = Nil <=>
                   event[Main] \in {EventPaymentSuccess, EventPaymentFailed}
             /\ order'.State = IF event[Main] = EventPaymentSuccess
                               THEN StateIdle ELSE StateTripCompleted]_vars

----------------------------------------------------------------------------
(* C20 *)

\* C20: a SubmitRating call made while the order is not in Idle returns the
\* not-eligible error whatever the rating; the out-of-range error is returned
\* only in Idle and only for a rating outside 1..5; a refused call leaves the
\* order as it was and an accepted one stores its argument; no other step
\* changes r.Rating.
C20_EligibilityBeforeRange ==
    [][/\ SubmitRatingStep =>
             /\ order.State # StateIdle => ret'[Main] = NotEligible
             /\ ret'[Main] = OutOfRange =>
                   order.State = StateIdle /\ ratingArg' \notin 1 .. 5
             /\ ret'[Main] # Nil => order' = order
             /\ ret'[Main] = Nil => order'.Rating = ratingArg'
       /\ ~SubmitRatingStep => order'.Rating = order.Rating]_vars

\* Witness of C20: with a rating of 4 stored, a rating of 6 submitted in
\* TripCompleted was refused as not eligible and the 4 stayed.
C20_Witness ==
    /\ lastOp[Main] = "SubmitRating" /\ entryState[Main] = StateTripCompleted
    /\ ratingArg = 6 /\ ret[Main] = NotEligible
    /\ order.Rating = 4 /\ order.State = StateTripCompleted

----------------------------------------------------------------------------
(* C18 *)

\* C18: under fair scheduling a watcher that has found the order in
\* OrderConfirmed terminates, and the one way out of its wait is to enter
\* Transition with carDelayed; when the order is still in OrderConfirmed as
\* the watcher enters Transition and no call of the main flow is in progress
\* during the watcher's call, the call returns nil and the order is in
\* TripCancelled.
C18_WatcherFiresAndEnds ==
    /\ (pc[Watcher] = "w_sleep") ~> (pc[Watcher] = "w_done")
    /\ [][(pc[Watcher] = "w_sleep" /\ pc'[Watcher] # "w_sleep") =>
             InCall(pc', Watcher) /\ event'[Watcher] = EventCarDelayed]_vars
    /\ [](/\ pc[Watcher] = "w_ret" /\ ~concurrent[Watcher]
          /\ entryState[Watcher] = StateOrderConfirmed
          => ret[Watcher] = Nil /\ order.State = StateTripCancelled)

\* Witness of C18: the watcher has terminated after its carDelayed call and
\* the order, which the main flow had left in OrderConfirmed, is cancelled.
C18_Witness ==
    /\ pc[Watcher] = "w_done" /\ order.State = StateTripCancelled
    /\ TransitionReturned(Main) /\ ret[Main] = Nil
    /\ event[Main] = EventConfirmOrder

====
